---- MODULE Spec2Model ----
(***************************************************************************)
(* The "Risk analysis" notebook (lectures/drafts/Risk analysis.ipynb) as a *)
(* state machine: the IPython kernel's namespace, the execution counter    *)
(* and the stored cell outputs are the state, and every code cell is one   *)
(* action.  Floating-point values are modelled as extended rationals       *)
(* <<n, d>> (d > 0 a finite value in lowest terms, <<0,0>> NaN, <<1,0>>    *)
(* and <<-1,0>> the infinities), so IEEE division by zero and NaN          *)
(* propagation are kept while rounding is not.                             *)
(***************************************************************************)
EXTENDS Integers, Sequences, FiniteSets, TLC

VARIABLES
    provider,          \* the data platform: fundamentals table, prices, window
    platform,          \* what the libraries turned out to do where they are free
    mode,              \* "interactive" (cells run one by one) or "runall"
    pc,                \* next cell of a Run All, or "stopped"
    In,                \* the kernel's execution counter
    execution_count,   \* per code cell: the In[n] of its last execution
    raised,            \* per code cell: the exception its last execution raised
    printed,           \* per code cell: the values its last execution printed
    defined,           \* the names bound in the kernel's namespace
    data,
    market_cap_top, market_cap_bottom, bp_top, bp_bottom,
    f1, f2,
    asset, bench, active,
    b1, b2,
    cov, ar_squared, fmcar1, fmcar2,
    w, solves          \* tracking-portfolio example: candidate weights, checked or not

kernel == <<provider, platform, mode, pc, In, execution_count, raised, printed, defined,
            data, market_cap_top, market_cap_bottom, bp_top, bp_bottom,
            f1, f2, asset, bench, active, b1, b2,
            cov, ar_squared, fmcar1, fmcar2>>
vars == <<provider, platform, mode, pc, In, execution_count, raised, printed, defined,
          data, market_cap_top, market_cap_bottom, bp_top, bp_bottom,
          f1, f2, asset, bench, active, b1, b2,
          cov, ar_squared, fmcar1, fmcar2, w, solves>>

-----------------------------------------------------------------------------
(* Bounds of the model *)

MaxN == 11         \* assets the fundamentals provider returns, at most
SmallN == 4        \* the same, in the interactive specification
MaxL == 4          \* daily prices in the window, at most
MaxExec == 6       \* cell executions in one kernel session
CapMod == 7        \* market caps range over 1..CapMod
BpMod == 5         \* book-to-price yields range over BpMod values
MaxWeight == 1     \* candidate tracking weights are the sixths in -MaxWeight..MaxWeight

-----------------------------------------------------------------------------
(* float64 arithmetic *)

NaN == <<0, 0>>
Zero == <<0, 1>>
One == <<1, 1>>

Abs(x) == IF x < 0 THEN -x ELSE x
Sgn(x) == IF x < 0 THEN -1 ELSE IF x > 0 THEN 1 ELSE 0

RECURSIVE GCD(_, _)
GCD(a, b) == IF b = 0 THEN a ELSE GCD(b, a % b)

Q(n, d) ==
    IF d = 0 THEN <<Sgn(n), 0>>
    ELSE LET g == GCD(Abs(n), Abs(d))
             s == Sgn(d)
         IN  <<(s * n) \div g, (s * d) \div g>>

Float(n) == <<n, 1>>
IsNaN(x) == x = NaN
IsFinite(x) == x[2] # 0
IsInf(x) == x[2] = 0 /\ x[1] # 0

Neg(x) == <<-x[1], x[2]>>

Add(x, y) ==
    IF IsNaN(x) \/ IsNaN(y) THEN NaN
    ELSE IF IsInf(x) /\ IsInf(y) THEN (IF x = y THEN x ELSE NaN)
    ELSE IF IsInf(x) THEN x
    ELSE IF IsInf(y) THEN y
    ELSE LET g == GCD(x[2], y[2])
         IN  Q(x[1] * (y[2] \div g) + y[1] * (x[2] \div g), (x[2] \div g) * y[2])

Sub(x, y) == Add(x, Neg(y))

Mul(x, y) ==
    IF IsNaN(x) \/ IsNaN(y) THEN NaN
    ELSE IF IsInf(x) \/ IsInf(y)
         THEN (IF x[1] = 0 \/ y[1] = 0 THEN NaN ELSE <<Sgn(x[1]) * Sgn(y[1]), 0>>)
    ELSE LET g == GCD(Abs(x[1]), y[2])
             h == GCD(Abs(y[1]), x[2])
         IN  Q((x[1] \div g) * (y[1] \div h), (x[2] \div h) * (y[2] \div g))

\* numpy float64 division: x/0 is +-inf, 0/0 and inf/inf are nan; nothing raises
Div(x, y) ==
    IF IsNaN(x) \/ IsNaN(y) THEN NaN
    ELSE IF IsInf(y) THEN (IF IsInf(x) THEN NaN ELSE Zero)
    ELSE IF y[1] = 0 THEN (IF x[1] = 0 THEN NaN ELSE <<Sgn(x[1]), 0>>)
    ELSE Mul(x, Q(y[2], y[1]))

\* x < y on finite values
Less(x, y) == x[1] * y[2] < y[1] * x[2]

RECURSIVE Sum(_)
Sum(s) == IF s = <<>> THEN Zero ELSE Add(Head(s), Sum(Tail(s)))

HasNaN(s) == \E t \in 1..Len(s) : IsNaN(s[t])
AllFinite(s) == \A t \in 1..Len(s) : IsFinite(s[t])

-----------------------------------------------------------------------------
(* The data platform (external): what get_fundamentals and get_pricing     *)
(* return.  Market caps and yields follow arithmetic patterns; a price     *)
(* series is one of six profiles, 0 standing for a missing observation.    *)

Fundamentals == <<
    [capMul |-> 3, bpMul |-> 2, bpShift |-> 0, holes |-> FALSE],
    [capMul |-> 3, bpMul |-> 1, bpShift |-> 2, holes |-> FALSE],
    [capMul |-> 1, bpMul |-> 2, bpShift |-> 1, holes |-> TRUE] >>

Profiles == <<
    <<1, 2, 4, 4>>,
    <<4, 2, 1, 1>>,
    <<2, 2, 2, 2>>,
    <<0, 1, 2, 2>>,
    <<2, 4, 4, 2>>,
    <<1, 0, 2, 2>> >>

\* which profile the universe's asset i follows: (i * mul + off) mod #profiles
Pricings == <<
    [mul |-> 1, off |-> 0],
    [mul |-> 5, off |-> 2],
    [mul |-> 0, off |-> 3] >>

\* the profiles of the analysed asset (HSC) and of the benchmark (SPY)
Pairs == << <<1, 2>>, <<5, 3>>, <<2, 2>>, <<4, 3>>, <<6, 1>> >>

ProfilePrices(k, len) ==
    [t \in 1..len |->
        LET v == Profiles[k][((t - 1) % Len(Profiles[k])) + 1]
        IN  IF v = 0 THEN NaN ELSE Float(v)]

\* provider = [universe, n, pricing, pair, days]: what was drawn for this run

\* get_fundamentals(query(market_cap, book_value_yield), '2015-07-31').T
get_fundamentals ==
    LET u == provider.universe
    IN  [i \in 1..provider.n |->
            [sid |-> i,
             market_cap |-> IF u.holes /\ i % 5 = 0 THEN NaN
                            ELSE Float(((i * u.capMul) % CapMod) + 1),
             book_value_yield |-> IF u.holes /\ i % 4 = 0 THEN NaN
                                  ELSE Float(((i * u.bpMul) % BpMod) + 1 - u.bpShift)]]

\* get_pricing(symbol, fields='price', start_date=..., end_date=...): one
\* price (or NaN) per trading day of the window, for the analysed asset
\* 'HSC', the benchmark 'SPY' and the assets of the universe
get_pricing_HSC == ProfilePrices(provider.pair[1], provider.days)
get_pricing_SPY == ProfilePrices(provider.pair[2], provider.days)
get_pricing(sid) ==
    ProfilePrices(((sid * provider.pricing.mul + provider.pricing.off)
                      % Len(Profiles)) + 1, provider.days)

Provider(u, n, p, hs, len) ==
    [universe |-> u, n |-> n, pricing |-> p, pair |-> hs, days |-> len]

-----------------------------------------------------------------------------
(* pandas / numpy operations the cells use *)

\* DataFrame.dropna(): rows with any missing field go
dropna_rows(table) ==
    SelectSeq(table, LAMBDA r : ~IsNaN(r.market_cap) /\ ~IsNaN(r.book_value_yield))

\* data.loc[data['book_value_yield'] > 0]
positive_yield(table) ==
    SelectSeq(table, LAMBDA r : Less(Zero, r.book_value_yield))

\* DataFrame.sort(col): ascending by the column; quicksort is not stable, so
\* rows of equal value come in either sid order (tie = 1 or -1)
RowBefore(r, s, col, tie) ==
    \/ Less(r[col], s[col])
    \/ r[col] = s[col] /\ tie * r.sid < tie * s.sid

sort(table, col, tie) ==
    LET before == [i \in 1..Len(table) |->
                      Cardinality({j \in 1..Len(table) :
                                     RowBefore(table[j], table[i], col, tie)})]
    IN  [k \in 1..Len(table) |->
            table[CHOOSE i \in 1..Len(table) : before[i] = k - 1]]

\* the orders sort can leave equal rows in: one when no two rows are equal
TieOrders(table, col) ==
    IF \E i, j \in 1..Len(table) : i < j /\ table[i][col] = table[j][col]
    THEN {1, -1} ELSE {1}

\* Python slices s[a:] and s[:b]
SliceFrom(s, a) == SubSeq(s, a + 1, Len(s))
SliceTo(s, b) == SubSeq(s, 1, b)

\* variants: the top bucket's first index rounded up; the bottom bucket's end
\* taken with the top bucket's 7
TopStartCeil(n) == (7 * n + 9) \div 10
BottomEndSeven(n) == (7 * n) \div 10

\* Python 2: 7*len(data)/10 and 3*len(data)/10 are integer divisions
TopStart(n) == (7 * n) \div 10
BottomEnd(n) == (3 * n) \div 10

top_bucket(table, col, tie) == SliceFrom(sort(table, col, tie), TopStart(Len(table)))
bottom_bucket(table, col, tie) == SliceTo(sort(table, col, tie), BottomEnd(Len(table)))

index(bucket) == {bucket[k].sid : k \in 1..Len(bucket)}

\* Series.pct_change(): missing prices are forward-filled first (fill_method
\* 'pad'), then p[t]/p[t-1] - 1; the first observation is undefined
pad(s) ==
    LET p[t \in 1..Len(s)] == IF t = 1 \/ ~IsNaN(s[t]) THEN s[t] ELSE p[t - 1]
    IN  p

pct_change(s) ==
    LET p == pad(s)
    IN  [t \in 1..Len(s) |-> IF t = 1 THEN NaN ELSE Sub(Div(p[t], p[t - 1]), One)]

\* variant: the first, undefined, observation is kept
KeepFirst(s) == s

\* [1:]
DropFirst(s) == SliceFrom(s, 1)

returns(prices) == DropFirst(pct_change(prices))

\* get_pricing(index, ...).pct_change()[1:]: a frame of return columns over
\* the window's trading days, one column per asset
returns_frame(ids) ==
    [dates |-> Len(DropFirst([t \in 1..provider.days |-> t])),
     col |-> [i \in ids |-> returns(get_pricing(i))]]

\* np.mean(frame.T.dropna()): assets with a missing return go, then the mean
\* over the remaining assets at each date; the mean of no asset is NaN
mean_returns(frame) ==
    LET kept == {i \in DOMAIN frame.col : ~HasNaN(frame.col[i])}
        RECURSIVE Total(_, _)
        Total(S, t) == IF S = {} THEN Zero
                       ELSE LET i == CHOOSE x \in S : TRUE
                            IN  Add(frame.col[i][t], Total(S \ {i}, t))
    IN  [t \in 1..frame.dates |->
            Div(Total(kept, t), Float(Cardinality(kept)))]

\* Series - Series on one date index
minus(x, y) == [t \in 1..Len(x) |-> Sub(x[t], y[t])]

factor(top, bottom) ==
    minus(mean_returns(returns_frame(index(top))),
          mean_returns(returns_frame(index(bottom))))

-----------------------------------------------------------------------------
(* Regression and risk attribution *)

Dot3(u, v) == Add(Add(Mul(u[1], v[1]), Mul(u[2], v[2])), Mul(u[3], v[3]))
Scale3(a, v) == <<Mul(a, v[1]), Mul(a, v[2]), Mul(a, v[3])>>
Sub3(u, v) == <<Sub(u[1], v[1]), Sub(u[2], v[2]), Sub(u[3], v[3])>>
Cross3(u, v) ==
    <<Sub(Mul(u[2], v[3]), Mul(u[3], v[2])),
      Sub(Mul(u[3], v[1]), Mul(u[1], v[3])),
      Sub(Mul(u[1], v[2]), Mul(u[2], v[1]))>>
Det2(a, b, c, d) == Sub(Mul(a, d), Mul(b, c))
Det3(M) == Dot3(M[1], Cross3(M[2], M[3]))
MatVec3(M, v) == <<Dot3(M[1], v), Dot3(M[2], v), Dot3(M[3], v)>>

Products(x, y) == [t \in 1..Len(x) |-> Mul(x[t], y[t])]

\* sm.add_constant(np.column_stack((f1, f2))): the design matrix's columns
Design(x1, x2) == <<[t \in 1..Len(x1) |-> One], x1, x2>>

\* X'X and X'y of the design matrix
Gram(X) == [i \in 1..3 |-> [j \in 1..3 |-> Sum(Products(X[i], X[j]))]]
Moment(X, y) == [i \in 1..3 |-> Sum(Products(X[i], y))]

\* OLS(...).fit() solves by the pseudo-inverse: the least-squares solution,
\* and the one of least norm when the design matrix is rank deficient
Rank3Solution(G, h) ==
    LET d == Det3(G)
        col(k) == [i \in 1..3 |-> [j \in 1..3 |-> IF j = k THEN h[i] ELSE G[i][j]]]
    IN  <<Div(Det3(col(1)), d), Div(Det3(col(2)), d), Div(Det3(col(3)), d)>>

Minor(G, i, j) == Det2(G[i][i], G[i][j], G[j][i], G[j][j])

Rank2Solution(G, h) ==
    LET ij == IF Minor(G, 1, 2) # Zero THEN <<1, 2>>
              ELSE IF Minor(G, 1, 3) # Zero THEN <<1, 3>> ELSE <<2, 3>>
        i == ij[1]
        j == ij[2]
        d == Minor(G, i, j)
        bi == Div(Det2(h[i], G[i][j], h[j], G[j][j]), d)
        bj == Div(Det2(G[i][i], h[i], G[j][i], h[j]), d)
        b0 == [k \in 1..3 |-> IF k = i THEN bi ELSE IF k = j THEN bj ELSE Zero]
        v == Cross3(G[i], G[j])
    IN  Sub3(b0, Scale3(Div(Dot3(b0, v), Dot3(v, v)), v))

Rank1Solution(G, h) ==
    LET r == G[1]
    IN  Scale3(Div(Dot3(r, h), Dot3(r, MatVec3(G, r))), r)

Rank(G) ==
    IF Det3(G) # Zero THEN 3
    ELSE IF \E i, j \in 1..3 : i < j /\ Minor(G, i, j) # Zero THEN 2
    ELSE 1

\* params of OLS(y, X).fit() for finite X; a missing value in y makes every
\* parameter NaN (missing='none': pinv(X) times y)
OLS_params(y, X) ==
    IF HasNaN(y) THEN <<NaN, NaN, NaN>>
    ELSE LET G == Gram(X)
             h == Moment(X, y)
             r == Rank(G)
         IN  IF r = 3 THEN Rank3Solution(G, h)
             ELSE IF r = 2 THEN Rank2Solution(G, h)
             ELSE Rank1Solution(G, h)

\* the mean of a sequence of floats (NaN for none)
mean(s) == Div(Sum(s), Float(Len(s)))

\* variant: the population covariance (ddof 0)
cov_entry_population(x, y) ==
    LET mx == Div(Sum(x), Float(Len(x)))
        my == Div(Sum(y), Float(Len(y)))
    IN  Div(Sum([t \in 1..Len(x) |-> Mul(Sub(x[t], mx), Sub(y[t], my))]),
            Float(Len(x)))

\* np.cov(x, y)[i, j]: deviations from the mean, summed, over n - 1 (ddof 1;
\* numpy sets a non-positive divisor to 0.0 and divides all the same)
cov_entry(x, y) ==
    LET mx == mean(x)
        my == mean(y)
        n == Len(x)
        fact == IF n - 1 <= 0 THEN 0 ELSE n - 1
    IN  Div(Sum([t \in 1..n |-> Mul(Sub(x[t], mx), Sub(y[t], my))]), Float(fact))

np_cov(x, y) == << <<cov_entry(x, x), cov_entry(x, y)>>,
                   <<cov_entry(y, x), cov_entry(y, y)>> >>

\* Series.std(): missing values are skipped, ddof 1, NaN for fewer than two
\* observations.  The root is represented by its square.
std(s) ==
    LET vals == SelectSeq(s, LAMBDA v : ~IsNaN(v))
        m == Len(vals)
        mu == mean(vals)
    IN  [squared |->
            IF m <= 1 THEN NaN
            ELSE Div(Sum([t \in 1..m |-> Mul(Sub(vals[t], mu), Sub(vals[t], mu))]),
                     Float(m - 1))]

\* (x)**2
Pow2(root) == root.squared

\* (b*(b_other*cov[0,1] + b*cov_own))/ar_squared
fmcar(b, b_other, cov_cross, cov_own, ar2) ==
    Div(Mul(b, Add(Mul(b_other, cov_cross), Mul(b, cov_own))), ar2)

-----------------------------------------------------------------------------
(* The kernel and the code cells *)

Cells == <<"load", "factors", "returns", "regression", "fmcar">>

Position(c) == CHOOSE k \in 1..Len(Cells) : Cells[k] = c

\* Run All takes the cells top to bottom and stops at the first exception;
\* in an interactive session any cell may be run at any time
After(c) == IF Position(c) = Len(Cells) THEN "done" ELSE Cells[Position(c) + 1]

CanRun(c) == In < MaxExec /\ (mode = "interactive" \/ pc = c)

Executed(c, exception, output) ==
    /\ In' = In + 1
    /\ execution_count' = [execution_count EXCEPT ![c] = In + 1]
    /\ raised' = [raised EXCEPT ![c] = exception]
    /\ printed' = [printed EXCEPT ![c] = output]
    /\ pc' = IF mode = "interactive" THEN pc
             ELSE IF exception = "" THEN After(c) ELSE "stopped"
    /\ UNCHANGED <<provider, mode, w, solves>>

\* cell In[2]: fundamentals, dropna, positive book-to-price
LoadCell ==
    /\ CanRun("load")
    /\ data' = positive_yield(dropna_rows(get_fundamentals))
    /\ defined' = defined \cup {"fundamentals", "data"}
    /\ Executed("load", "", <<>>)
    /\ UNCHANGED <<platform, market_cap_top, market_cap_bottom, bp_top, bp_bottom, f1, f2,
                   asset, bench, active, b1, b2, cov, ar_squared, fmcar1, fmcar2>>

\* Where a library is free (the order quicksort leaves equal rows in, what
\* get_pricing does with an empty index, the SVD of a matrix holding NaN,
\* add_constant on a column that is constant already) it does one thing, the
\* same at every call of a session: 0 or "?" until a call has shown which.
Free(known, unknown, options) == IF known = unknown THEN options ELSE {known}

\* cell In[4]: the two long-short factors
FactorCell ==
    /\ CanRun("factors")
    /\ UNCHANGED <<data, asset, bench, active, b1, b2, cov, ar_squared, fmcar1, fmcar2>>
    /\ IF "data" \notin defined
       THEN /\ Executed("factors", "NameError", <<>>)
            /\ UNCHANGED <<platform, defined, market_cap_top, market_cap_bottom,
                           bp_top, bp_bottom, f1, f2>>
       ELSE \E tie1 \in Free(platform.sort_market_cap, 0, TieOrders(data, "market_cap")),
               tie2 \in Free(platform.sort_book_value_yield, 0,
                             TieOrders(data, "book_value_yield")),
               empty \in Free(platform.empty_index, "?", {"raises", "frame"}) :
            LET mt == top_bucket(data, "market_cap", tie1)
                mb == bottom_bucket(data, "market_cap", tie1)
                bt == top_bucket(data, "book_value_yield", tie2)
                bb == bottom_bucket(data, "book_value_yield", tie2)
                bound1 == defined \cup {"market_cap_top", "market_cap_bottom"}
                bound2 == bound1 \cup {"f1", "bp_top", "bp_bottom"}
            IN  /\ platform' =
                     [platform EXCEPT
                        !.sort_market_cap =
                            IF TieOrders(data, "market_cap") = {1} THEN @ ELSE tie1,
                        !.sort_book_value_yield =
                            IF TieOrders(data, "book_value_yield") = {1} THEN @ ELSE tie2,
                        !.empty_index =
                            IF <<>> \in {mt, mb, bt, bb} THEN empty ELSE @]
                /\ market_cap_top' = mt
                /\ market_cap_bottom' = mb
                /\ IF empty = "raises" /\ (mt = <<>> \/ mb = <<>>)
                   THEN /\ Executed("factors", "ProviderError", <<>>)
                        /\ defined' = bound1
                        /\ UNCHANGED <<f1, bp_top, bp_bottom, f2>>
                   ELSE /\ f1' = factor(mt, mb)
                        /\ bp_top' = bt
                        /\ bp_bottom' = bb
                        /\ IF empty = "raises" /\ (bt = <<>> \/ bb = <<>>)
                           THEN /\ Executed("factors", "ProviderError", <<>>)
                                /\ defined' = bound2
                                /\ UNCHANGED f2
                           ELSE /\ f2' = factor(bt, bb)
                                /\ defined' = bound2 \cup {"f2"}
                                /\ Executed("factors", "", <<>>)

\* cell In[24]: the asset's and the benchmark's returns, and their difference
ReturnsCell ==
    /\ CanRun("returns")
    /\ asset' = returns(get_pricing_HSC)
    /\ bench' = returns(get_pricing_SPY)
    /\ active' = minus(asset', bench')
    /\ defined' = defined \cup {"asset", "bench", "active"}
    /\ Executed("returns", "", <<>>)
    /\ UNCHANGED <<platform, data, market_cap_top, market_cap_bottom, bp_top, bp_bottom,
                   f1, f2, b1, b2, cov, ar_squared, fmcar1, fmcar2>>

IsConstant(s) == \A t \in 1..Len(s) : s[t] = s[1]

\* cell In[29]: b1, b2 = OLS(active, add_constant(column_stack((f1, f2))))
RegressionCell ==
    /\ CanRun("regression")
    /\ UNCHANGED <<data, market_cap_top, market_cap_bottom, bp_top, bp_bottom,
                   f1, f2, asset, bench, active, cov, ar_squared, fmcar1, fmcar2>>
    /\ IF ~({"active", "f1", "f2"} \subseteq defined)
       THEN /\ Executed("regression", "NameError", <<>>)
            /\ UNCHANGED <<platform, defined, b1, b2>>
       ELSE IF Len(f1) # Len(f2) \/ Len(active) # Len(f1)
       THEN /\ Executed("regression", "ValueError", <<>>)
            /\ UNCHANGED <<platform, defined, b1, b2>>
       ELSE IF Len(active) = 0
       THEN /\ Executed("regression", "LinAlgError", <<>>)
            /\ UNCHANGED <<platform, defined, b1, b2>>
       ELSE IF HasNaN(f1) \/ HasNaN(f2)
       THEN \E svd \in Free(platform.nan_svd, "?", {"raises", "nan"}) :
            /\ platform' = [platform EXCEPT !.nan_svd = svd]
            /\ IF svd = "raises"
               THEN /\ Executed("regression", "LinAlgError", <<>>)
                    /\ UNCHANGED <<defined, b1, b2>>
               ELSE /\ b1' = NaN
                    /\ b2' = NaN
                    /\ defined' = defined \cup {"b1", "b2"}
                    /\ Executed("regression", "", <<NaN, NaN>>)
       ELSE \E const \in IF IsConstant(f1) \/ IsConstant(f2)
                         THEN Free(platform.constant_column, "?", {"skipped", "added"})
                         ELSE {"added"} :
            /\ platform' = [platform EXCEPT
                              !.constant_column =
                                  IF IsConstant(f1) \/ IsConstant(f2) THEN const ELSE @]
            /\ IF const = "skipped"
               THEN /\ Executed("regression", "ValueError", <<>>)
                    /\ UNCHANGED <<defined, b1, b2>>
               ELSE LET params == OLS_params(active, Design(f1, f2))
                    IN  /\ b1' = params[2]
                        /\ b2' = params[3]
                        /\ defined' = defined \cup {"b1", "b2"}
                        /\ Executed("regression", "", <<params[2], params[3]>>)

\* cell In[27]: cov, ar_squared, fmcar1, fmcar2, statement by statement
FMCARCell ==
    /\ CanRun("fmcar")
    /\ UNCHANGED <<platform, data, market_cap_top, market_cap_bottom, bp_top, bp_bottom,
                   f1, f2, asset, bench, active, b1, b2>>
    /\ IF ~({"f1", "f2"} \subseteq defined)
       THEN /\ Executed("fmcar", "NameError", <<>>)
            /\ UNCHANGED <<defined, cov, ar_squared, fmcar1, fmcar2>>
       ELSE IF Len(f1) # Len(f2)
       THEN /\ Executed("fmcar", "ValueError", <<>>)
            /\ UNCHANGED <<defined, cov, ar_squared, fmcar1, fmcar2>>
       ELSE /\ cov' = np_cov(f1, f2)
            /\ IF "active" \notin defined
               THEN /\ Executed("fmcar", "NameError", <<>>)
                    /\ defined' = defined \cup {"cov"}
                    /\ UNCHANGED <<ar_squared, fmcar1, fmcar2>>
               ELSE /\ ar_squared' = Pow2(std(active))
                    /\ IF ~({"b1", "b2"} \subseteq defined)
                       THEN /\ Executed("fmcar", "NameError", <<>>)
                            /\ defined' = defined \cup {"cov", "ar_squared"}
                            /\ UNCHANGED <<fmcar1, fmcar2>>
                       ELSE /\ fmcar1' = fmcar(b1, b2, cov'[1][2], cov'[1][1], ar_squared')
                            /\ fmcar2' = fmcar(b2, b1, cov'[1][2], cov'[2][2], ar_squared')
                            /\ defined' = defined \cup {"cov", "ar_squared",
                                                        "fmcar1", "fmcar2"}
                            /\ Executed("fmcar", "", <<fmcar1', fmcar2'>>)

Next == LoadCell \/ FactorCell \/ ReturnsCell \/ RegressionCell \/ FMCARCell

\* a fresh kernel
Fresh(prov, m) ==
    /\ provider = prov
    /\ platform = [sort_market_cap |-> 0, sort_book_value_yield |-> 0,
                   empty_index |-> "?", nan_svd |-> "?", constant_column |-> "?"]
    /\ mode = m
    /\ pc = IF m = "runall" THEN Cells[1] ELSE "any"
    /\ In = 0
    /\ execution_count = [c \in {Cells[k] : k \in 1..Len(Cells)} |-> 0]
    /\ raised = [c \in {Cells[k] : k \in 1..Len(Cells)} |-> ""]
    /\ printed = [c \in {Cells[k] : k \in 1..Len(Cells)} |-> <<>>]
    /\ defined = {}
    /\ data = <<>>
    /\ market_cap_top = <<>> /\ market_cap_bottom = <<>>
    /\ bp_top = <<>> /\ bp_bottom = <<>>
    /\ f1 = <<>> /\ f2 = <<>>
    /\ asset = <<>> /\ bench = <<>> /\ active = <<>>
    /\ b1 = NaN /\ b2 = NaN
    /\ cov = << <<NaN, NaN>>, <<NaN, NaN>> >>
    /\ ar_squared = NaN /\ fmcar1 = NaN /\ fmcar2 = NaN

Range(s) == {s[k] : k \in 1..Len(s)}

\* an interactive session over a small universe
Init ==
    \E n \in 0..SmallN, u \in {Fundamentals[1]}, p \in {Pricings[1]},
       hs \in {Pairs[1], Pairs[3]} :
        /\ Fresh(Provider(u, n, p, hs, MaxL), "interactive")
        /\ w = <<Zero, Zero, Zero>>
        /\ solves = "unchecked"

Spec == Init /\ [][Next]_vars

\* Run All over every universe, window and pair of the bounds
InitRunAll ==
    \E n \in 0..MaxN, u \in Range(Fundamentals), p \in Range(Pricings),
       hs \in Range(Pairs), len \in 1..MaxL :
        /\ Fresh(Provider(u, n, p, hs, len), "runall")
        /\ w = <<Zero, Zero, Zero>>
        /\ solves = "unchecked"

SpecRunAll == InitRunAll /\ [][Next]_vars

-----------------------------------------------------------------------------
(* The tracking-portfolio example (markdown): two factors, a benchmark with *)
(* sensitivities 1 and 1.1, three securities, and the weights it states.    *)

Benchmark == <<One, Q(11, 10)>>

\* variant: b_12 and b_21 exchanged (b_ij read as factor i, security j)
SensitivityMisread == << <<Q(7, 10), Q(1, 10)>>,
                         <<Q(11, 10), Q(5, 10)>>,
                         <<Q(15, 10), Q(13, 10)>> >>

\* Sensitivity[i][j] is b_ij, security i's sensitivity to factor j
Sensitivity == << <<Q(7, 10), Q(11, 10)>>,
                  <<Q(1, 10), Q(5, 10)>>,
                  <<Q(15, 10), Q(13, 10)>> >>

\* w_1 b_1j + w_2 b_2j + w_3 b_3j
PortfolioSensitivity(x, j) ==
    Add(Add(Mul(x[1], Sensitivity[1][j]), Mul(x[2], Sensitivity[2][j])),
        Mul(x[3], Sensitivity[3][j]))

\* the system of 3 linear equations
TrackingEquations(x) ==
    /\ PortfolioSensitivity(x, 1) = Benchmark[1]
    /\ PortfolioSensitivity(x, 2) = Benchmark[2]
    /\ Add(Add(x[1], x[2]), x[3]) = One

\* the system's coefficient matrix: a row per equation
Coefficients ==
    << <<Sensitivity[1][1], Sensitivity[2][1], Sensitivity[3][1]>>,
       <<Sensitivity[1][2], Sensitivity[2][2], Sensitivity[3][2]>>,
       <<One, One, One>> >>

\* "we find that w_1 = 1/3, w_2 = 1/6, and w_3 = 1/2"
Stated == <<Q(1, 3), Q(1, 6), Q(1, 2)>>

Sixths == {Q(k, 6) : k \in (-6 * MaxWeight)..(6 * MaxWeight)}

\* a candidate portfolio is put into the three equations
Substitute ==
    /\ solves = "unchecked"
    /\ solves' = IF TrackingEquations(w) THEN "yes" ELSE "no"
    /\ UNCHANGED <<kernel, w>>

InitTracking ==
    /\ Fresh(Provider(Fundamentals[1], 0, Pricings[1], Pairs[1], 1), "runall")
    /\ w \in Sixths \X Sixths \X Sixths
    /\ solves = "unchecked"

SpecTracking == InitTracking /\ [][Substitute]_vars

-----------------------------------------------------------------------------
(* Properties *)

N == Len(data)

Rows(bucket) == {bucket[k] : k \in 1..Len(bucket)}

\* floor and ceiling of k*n/10
FloorTenths(k, n) == CHOOSE q \in 0..(k * n) : 10 * q <= k * n /\ k * n < 10 * (q + 1)
CeilTenths(k, n) == CHOOSE q \in 0..(k * n) : 10 * (q - 1) < k * n /\ k * n <= 10 * q

Ascending(bucket, col) ==
    \A k \in 1..(Len(bucket) - 1) : ~Less(bucket[k + 1][col], bucket[k][col])

\* the bucket is the first (last) size rows of data in ascending order of col
LowestRanked(bucket, col, size) ==
    /\ Len(bucket) = size
    /\ Rows(bucket) \subseteq Rows(data)
    /\ Cardinality(index(bucket)) = size
    /\ Ascending(bucket, col)
    /\ \A x \in Rows(bucket), r \in Rows(data) \ Rows(bucket) : ~Less(r[col], x[col])

HighestRanked(bucket, col, size) ==
    /\ Len(bucket) = size
    /\ Rows(bucket) \subseteq Rows(data)
    /\ Cardinality(index(bucket)) = size
    /\ Ascending(bucket, col)
    /\ \A x \in Rows(bucket), r \in Rows(data) \ Rows(bucket) : ~Less(x[col], r[col])

MarketCapBuckets == {"market_cap_top", "market_cap_bottom"} \subseteq defined
BookToPriceBuckets == {"bp_top", "bp_bottom"} \subseteq defined

\* C1 as stated: the bottom bucket is the first floor(0.3 N) assets of the
\* ascending order and the top bucket the assets from index ceil(0.7 N) on,
\* N - ceil(0.7 N) of them, for both rankings.
C1_TopFromCeiling ==
    /\ MarketCapBuckets =>
         /\ LowestRanked(market_cap_bottom, "market_cap", FloorTenths(3, N))
         /\ HighestRanked(market_cap_top, "market_cap", N - CeilTenths(7, N))
    /\ BookToPriceBuckets =>
         /\ LowestRanked(bp_bottom, "book_value_yield", FloorTenths(3, N))
         /\ HighestRanked(bp_top, "book_value_yield", N - CeilTenths(7, N))

\* C1 amended: the bottom bucket is the first floor(0.3 N) assets of the
\* ascending order and the top bucket the assets from index floor(0.7 N) on,
\* N - floor(0.7 N) of them, for both rankings and every N.
C1_TopFromFloor ==
    /\ MarketCapBuckets =>
         /\ LowestRanked(market_cap_bottom, "market_cap", FloorTenths(3, N))
         /\ HighestRanked(market_cap_top, "market_cap", N - FloorTenths(7, N))
    /\ BookToPriceBuckets =>
         /\ LowestRanked(bp_bottom, "book_value_yield", FloorTenths(3, N))
         /\ HighestRanked(bp_top, "book_value_yield", N - FloorTenths(7, N))

\* a universe of 11 assets bucketed: 3 at the bottom, 4 at the top
C1_ElevenAssets ==
    /\ MarketCapBuckets /\ BookToPriceBuckets
    /\ N = 11
    /\ Len(market_cap_bottom) = 3 /\ Len(market_cap_top) = 4
    /\ Len(bp_bottom) = 3 /\ Len(bp_top) = 4

Partition(bottom, top, col) ==
    LET B == index(bottom)
        T == index(top)
        U == index(data)
        M == U \ (B \cup T)
    IN  /\ Cardinality(B) = Len(bottom) /\ Cardinality(T) = Len(top)
        /\ B \subseteq U /\ T \subseteq U
        /\ B \cap T = {}
        /\ Cardinality(B) + Cardinality(M) + Cardinality(T) = N
        /\ \A x \in Rows(bottom), y \in Rows(top) : ~Less(y[col], x[col])
        /\ N % 10 = 0 =>
             /\ 10 * Cardinality(B) = 3 * N
             /\ 10 * Cardinality(M) = 4 * N
             /\ 10 * Cardinality(T) = 3 * N

\* C2: for both rankings the bottom bucket, the excluded middle and the top
\* bucket are pairwise disjoint and make up the filtered universe, no
\* bottom asset ranks above a top asset, and a universe of 10k assets
\* splits 3k / 4k / 3k.
C2_BucketsPartition ==
    /\ MarketCapBuckets => Partition(market_cap_bottom, market_cap_top, "market_cap")
    /\ BookToPriceBuckets => Partition(bp_bottom, bp_top, "book_value_yield")

\* ten assets bucketed 3 / 4 / 3 under both rankings, with a tie in the ranking
C2_TenAssets ==
    /\ MarketCapBuckets /\ BookToPriceBuckets
    /\ N = 10
    /\ Len(market_cap_bottom) = 3 /\ Len(market_cap_top) = 3
    /\ Len(bp_bottom) = 3 /\ Len(bp_top) = 3
    /\ TieOrders(data, "market_cap") = {1, -1}

Dropped(bucket) == {i \in index(bucket) : HasNaN(returns(get_pricing(i)))}

\* C5: whatever assets are dropped the two bucket means and the factor have
\* one observation less than the window has prices, for both factors, and
\* so has the active-return series built from the same window.
C5_SeriesLengths ==
    /\ "f1" \in defined =>
         /\ Len(f1) = provider.days - 1
         /\ Len(mean_returns(returns_frame(index(market_cap_top)))) = provider.days - 1
         /\ Len(mean_returns(returns_frame(index(market_cap_bottom)))) = provider.days - 1
    /\ "f2" \in defined =>
         /\ Len(f2) = provider.days - 1
         /\ Len(mean_returns(returns_frame(index(bp_top)))) = provider.days - 1
         /\ Len(mean_returns(returns_frame(index(bp_bottom)))) = provider.days - 1
    /\ "active" \in defined =>
         /\ Len(active) = provider.days - 1
         /\ "f1" \in defined => Len(f1) = Len(active)
         /\ "f2" \in defined => Len(f2) = Len(active)

\* both factors and the active return built over a window of three prices or
\* more, a top-bucket asset dropped for a missing price and another kept
C5_DroppedAsset ==
    /\ {"f1", "f2", "active"} \subseteq defined
    /\ provider.days >= 3
    /\ Dropped(market_cap_top) # {}
    /\ Dropped(market_cap_top) # index(market_cap_top)
    /\ Len(f1) = provider.days - 1

\* sample covariance and variance by the sums-of-products formula:
\* (n Sxy - Sx Sy) / (n (n - 1))
SampleCov(x, y) ==
    LET n == Len(x)
    IN  Div(Sub(Mul(Float(n), Sum(Products(x, y))), Mul(Sum(x), Sum(y))),
            Float(n * (n - 1)))
SampleVar(x) == SampleCov(x, x)

\* b_j * (sum over i of b_i * Cov(F_j, F_i)) / Var(active)
FMCARFormula(j) ==
    LET b == <<b1, b2>>
        F == <<f1, f2>>
    IN  Div(Mul(b[j], Add(Mul(b[1], SampleCov(F[j], F[1])),
                          Mul(b[2], SampleCov(F[j], F[2])))),
            SampleVar(active))

FiniteSample ==
    /\ {"fmcar1", "fmcar2"} \subseteq defined
    /\ Len(active) >= 2
    /\ AllFinite(f1) /\ AllFinite(f2) /\ AllFinite(active)

\* C3: on series without missing values, fmcar_j is b_j times the sum of
\* b_i Cov(F_j, F_i), over Var(active), covariance and variance both with
\* the n - 1 divisor; with the other sensitivity 0 it is b_j^2 Var(F_j) /
\* Var(active).
C3_FMCARFormula ==
    FiniteSample =>
        /\ fmcar1 = FMCARFormula(1)
        /\ fmcar2 = FMCARFormula(2)
        /\ b2 = Zero => fmcar1 = Div(Mul(Mul(b1, b1), SampleVar(f1)), SampleVar(active))
        /\ b1 = Zero => fmcar2 = Div(Mul(Mul(b2, b2), SampleVar(f2)), SampleVar(active))

\* two non-zero sensitivities, correlated factors, finite non-zero FMCARs
C3_TwoFactors ==
    /\ FiniteSample
    /\ b1 # Zero /\ b2 # Zero /\ cov[1][2] # Zero
    /\ IsFinite(fmcar1) /\ fmcar1 # Zero
    /\ IsFinite(fmcar2) /\ fmcar2 # Zero

\* C4: the worked example's three equations have exactly one solution, and
\* it is the stated w = (1/3, 1/6, 1/2): the coefficient matrix is regular,
\* the stated weights satisfy the equations and no other candidate does.
C4_StatedWeightsOnly ==
    /\ Det3(Coefficients) # Zero
    /\ solves # "unchecked" => (solves = "yes" <=> w = Stated)

\* the stated weights, substituted, satisfy the three equations
C4_StatedWeightsSolve == solves = "yes" /\ w = Stated

\* no call so far has met a case its library leaves open
Specified ==
    /\ platform.empty_index = "?"
    /\ platform.nan_svd = "?"
    /\ platform.constant_column = "?"

\* C6 as stated: when the active returns have zero variance the FMCAR cell
\* ends in a division-by-zero error and binds neither fmcar1 nor fmcar2
\* (taken over the runs in which every library call was a specified one).
C6_ZeroVarianceRaises ==
    (/\ Specified
     /\ execution_count["fmcar"] > 0
     /\ {"f1", "f2", "active", "b1", "b2"} \subseteq defined
     /\ Pow2(std(active)) = Zero)
    => /\ raised["fmcar"] = "ZeroDivisionError"
       /\ "fmcar1" \notin defined
       /\ "fmcar2" \notin defined

\* a bucket has no asset, or none with its prices complete
BucketEmptied ==
    \/ MarketCapBuckets /\ \E bucket \in {market_cap_top, market_cap_bottom} :
                              index(bucket) = Dropped(bucket)
    \/ BookToPriceBuckets /\ \E bucket \in {bp_top, bp_bottom} :
                                index(bucket) = Dropped(bucket)

\* C7 as stated: when a bucket ends up with no asset (a universe too small,
\* or every asset of it dropped for a missing price) the factor cell ends in
\* an error and binds no factor series for the regression to take (taken
\* over the runs in which every library call was a specified one).
C7_EmptyBucketRaises ==
    (Specified /\ execution_count["factors"] > 0 /\ "data" \in defined /\ BucketEmptied)
    => /\ raised["factors"] # ""
       /\ ~({"f1", "f2"} \subseteq defined)
       /\ raised["regression"] = "" => execution_count["regression"] = 0

Coverage(s) == {t \in 1..Len(s) : ~IsNaN(s[t])}

\* the five series do not all have one length and one set of dates with data
Misaligned ==
    \E x, y \in {asset, bench, active, f1, f2} :
        Len(x) # Len(y) \/ Coverage(x) # Coverage(y)

\* C8 as stated: when the asset, benchmark, active-return or factor series
\* differ in length or date coverage, the regression cell and the FMCAR
\* cell end in an error and compute neither sensitivities nor a covariance
\* (taken over the runs in which every library call was a specified one).
C8_MisalignedRaises ==
    (Specified /\ {"asset", "bench", "active", "f1", "f2"} \subseteq defined /\ Misaligned)
    => /\ execution_count["regression"] > 0 =>
            raised["regression"] # "" /\ "b1" \notin defined
       /\ execution_count["fmcar"] > 0 =>
            raised["fmcar"] # "" /\ "cov" \notin defined

\* C10 as stated: the regression comes after both factors exist, the FMCAR
\* values after a regression has bound b1 and b2, the sensitivities FMCAR
\* used are those of a regression on the current factors and active
\* returns, and the FMCAR values a session shows were printed later than
\* the sensitivities it shows.
C10_OutputsInOrder ==
    /\ "b1" \in defined => {"f1", "f2", "active"} \subseteq defined
    /\ "fmcar1" \in defined =>
         /\ {"b1", "b2"} \subseteq defined
         /\ fmcar1 = fmcar(b1, b2, cov[1][2], cov[1][1], ar_squared)
         /\ fmcar2 = fmcar(b2, b1, cov[1][2], cov[2][2], ar_squared)
    /\ (printed["regression"] # <<>> /\ printed["fmcar"] # <<>>) =>
         /\ execution_count["regression"] < execution_count["fmcar"]
         /\ printed["regression"] = <<b1, b2>>
         /\ printed["fmcar"] = <<fmcar1, fmcar2>>

====
